---- MODULE Spec2Model ----
(***************************************************************************)
(* Model of the unichatbot client: the Chat component (live transcript,    *)
(* send/receive, history load), the Sidemenu component (session catalog)   *)
(* and the App component that wires them together.                         *)
(*                                                                         *)
(* Strings are modelled as sequences of one-character strings so that      *)
(* trim, slice and the regular-expression rewrites of formatBotResponse    *)
(* can be computed as the code computes them.  The markup literals that    *)
(* formatBotResponse inserts are kept as single tokens of the sequence.    *)
(* A date string is a token whose instant is given by GetTime; two         *)
(* different tokens may denote the same instant.  Only well-formed date    *)
(* strings are considered (HistoryItem.created_at is a server timestamp).  *)
(***************************************************************************)
EXTENDS Integers, Sequences, FiniteSets, Bags, TLC

\* ------------------------------------------------------------------------
\* Bounds of the model
\* ------------------------------------------------------------------------
\* The longest record list given to the builders on their own.
MaxRecords == 3

\* The longest text given to the title derivation on its own.
MaxTitleInput == 32

\* The number of user operations that reach the backend or open a session
\* (a message sent, a session selected, a new chat) in one run.
MaxOps == 3

\* ------------------------------------------------------------------------
\* Strings
\* ------------------------------------------------------------------------
Min(a, b) == IF a <= b THEN a ELSE b

WhiteSpace == {" ", "\n", "\t"}

LineTerminators == {"\n", "\r"}

RECURSIVE TrimStart(_)
TrimStart(s) ==
  IF s # <<>> /\ Head(s) \in WhiteSpace THEN TrimStart(Tail(s)) ELSE s

RECURSIVE TrimEnd(_)
TrimEnd(s) ==
  IF s # <<>> /\ s[Len(s)] \in WhiteSpace
  THEN TrimEnd(SubSeq(s, 1, Len(s) - 1))
  ELSE s

\* String.prototype.trim
Trim(s) == TrimEnd(TrimStart(s))

\* s.slice(0, n)
Slice0(s, n) == SubSeq(s, 1, Min(Len(s), n))

TitleMax == 30

Ellipsis == <<".", ".", ".">>

\* A title that takes the ellipsis at 30 characters already.
TitleOf_EllipsisAtMax(content) ==
  Slice0(content, TitleMax) \o (IF Len(content) >= TitleMax THEN Ellipsis ELSE <<>>)

\* content.slice(0, 30) + (content.length > 30 ? '...' : '')
TitleOf(content) ==
  Slice0(content, TitleMax) \o (IF Len(content) > TitleMax THEN Ellipsis ELSE <<>>)

DefaultTitle == <<"New Conversation">>

\* ------------------------------------------------------------------------
\* formatBotResponse
\* ------------------------------------------------------------------------
StartsWithAt(s, i, p) ==
  /\ i + Len(p) - 1 <= Len(s)
  /\ SubSeq(s, i, i + Len(p) - 1) = p

\* The lengths k >= 1 of a group (.+?) such that pre (.+?) post matches at i.
GroupLens(s, i, pre, post) ==
  IF ~StartsWithAt(s, i, pre) THEN {}
  ELSE { k \in 1..(Len(s) - i - Len(pre) + 1) :
           /\ StartsWithAt(s, i + Len(pre) + k, post)
           /\ \A j \in (i + Len(pre))..(i + Len(pre) + k - 1) : s[j] \notin LineTerminators }

SetMin(S) == CHOOSE k \in S : \A m \in S : k <= m

\* s.replace(/pre(.+?)post/g, open + '$1' + close), scanning from position i.
RECURSIVE ReplaceFrom(_, _, _, _, _, _)
ReplaceFrom(s, i, pre, post, open, close) ==
  IF i > Len(s) THEN <<>>
  ELSE LET lens == GroupLens(s, i, pre, post) IN
       IF lens = {}
       THEN <<s[i]>> \o ReplaceFrom(s, i + 1, pre, post, open, close)
       ELSE LET k == SetMin(lens) IN
            <<open>> \o SubSeq(s, i + Len(pre), i + Len(pre) + k - 1) \o <<close>>
              \o ReplaceFrom(s, i + Len(pre) + k + Len(post), pre, post, open, close)

\* raw.replace(/- \*\*(.+?)\*\*:/g, '<h4>$1</h4>')
ReplaceHeadings(s) ==
  ReplaceFrom(s, 1, <<"-", " ", "*", "*">>, <<"*", "*", ":">>, "<h4>", "</h4>")

\* formatted.replace(/\*\*(.+?)\*\*/g, '<strong>$1</strong>')
ReplaceBold(s) ==
  ReplaceFrom(s, 1, <<"*", "*">>, <<"*", "*">>, "<strong>", "</strong>")

\* formatted.replace(/\n/g, '<br />')
ReplaceNewlines(s) ==
  [i \in 1..Len(s) |-> IF s[i] = "\n" THEN "<br />" ELSE s[i]]

formatBotResponse(raw) ==
  IF raw = <<>> THEN <<>>
  ELSE ReplaceNewlines(ReplaceBold(ReplaceHeadings(raw)))

\* ------------------------------------------------------------------------
\* Dates
\* ------------------------------------------------------------------------
\* The date strings of the model; "T1Z" and "T1+00" spell the same instant.
DateStrings == {"T1Z", "T1+00", "T2Z"}

\* new Date(s).getTime()
GetTime(s) ==
  CASE s = "T1Z"   -> 1
    [] s = "T1+00" -> 1
    [] s = "T2Z"   -> 2

\* ------------------------------------------------------------------------
\* Array.prototype.sort: a stable sort by the comparator
\* ------------------------------------------------------------------------
\* cmp[j, i] is the comparator's result for the elements at j and i.
\* The place of element i: after every element that compares smaller, and
\* after every earlier element that compares equal.
\* A sort that is not stable: elements that compare equal change places.
SortRank_TiesReversed(s, i, cmp) ==
  1 + Cardinality({ j \in 1..Len(s) :
        \/ cmp[j, i] < 0
        \/ (cmp[j, i] = 0 /\ j > i) })

SortRank(s, i, cmp) ==
  1 + Cardinality({ j \in 1..Len(s) :
        \/ cmp[j, i] < 0
        \/ (cmp[j, i] = 0 /\ j < i) })

ArraySort(s, cmp) ==
  [p \in 1..Len(s) |-> s[CHOOSE i \in 1..Len(s) : SortRank(s, i, cmp) = p]]

\* ------------------------------------------------------------------------
\* History records (HistoryItem) and messages (Message)
\* ------------------------------------------------------------------------
\* A field the payload does not carry (undefined in JavaScript).
Undefined == "undefined"

\* Truthiness of a string-valued field.
Truthy(x) == x # "" /\ x # Undefined

HistoryItem(id, userQuery, botResponse, sessionId, createdAt) ==
  [ id               |-> id,
    user_query       |-> userQuery,
    bot_response     |-> botResponse,
    model_used       |-> "model",
    detected_intent  |-> "faq",
    confidence_score |-> 90,
    session_id       |-> sessionId,
    created_at       |-> createdAt ]

\* A history payload: what the GET of /chat/university/history/ delivers.
\* isArray is Array.isArray(response); items are its elements.
ArrayPayload(items) == [isArray |-> TRUE, items |-> items]

NotArrayPayload == [isArray |-> FALSE, items |-> <<>>]

\* ------------------------------------------------------------------------
\* Chat.loadChatHistory, next callback: the transcript built from history
\* ------------------------------------------------------------------------
\* A filter that lets every record through.
FilterItems_Unfiltered(sessionId, response) == response

\* sessionId ? response.filter(item => item.session_id === sessionId) : response
FilterItems(sessionId, response) ==
  IF sessionId # ""
  THEN SelectSeq(response, LAMBDA item : item.session_id = sessionId)
  ELSE response

\* A comparator with the operands exchanged: newest first.
CompareCreatedAt_Descending(a, b) == GetTime(b.created_at) - GetTime(a.created_at)

\* (a, b) => new Date(a.created_at).getTime() - new Date(b.created_at).getTime()
CompareCreatedAt(a, b) == GetTime(a.created_at) - GetTime(b.created_at)

\* items.sort(...)
SortItems(items) ==
  ArraySort(items, [i, j \in 1..Len(items) |-> CompareCreatedAt(items[i], items[j])])

UserMessage(item) ==
  [ id        |-> <<"hist", item.id, "user">>,
    content   |-> item.user_query,
    sender    |-> "user",
    timestamp |-> GetTime(item.created_at) ]

BotMessage(item) ==
  [ id         |-> <<"hist", item.id, "bot">>,
    content    |-> formatBotResponse(item.bot_response),
    sender     |-> "bot",
    timestamp  |-> GetTime(item.created_at),
    intent     |-> item.detected_intent,
    confidence |-> item.confidence_score ]

\* A loop body that pushes the bot message without the test.
HasBotReply_Always(item) == TRUE

\* if (item.bot_response)
HasBotReply(item) == item.bot_response # <<>>

\* The messages one record contributes (the body of items.forEach).
ItemMessages(item) ==
  <<UserMessage(item)>> \o (IF HasBotReply(item) THEN <<BotMessage(item)>> ELSE <<>>)

RECURSIVE ExpandItems(_)
ExpandItems(items) ==
  IF items = <<>> THEN <<>>
  ELSE ItemMessages(Head(items)) \o ExpandItems(Tail(items))

\* Array.isArray(response) && response.length > 0
HasRecords(payload) == payload.isArray /\ Len(payload.items) > 0

\* The value given to this.messages.set(...) by the next callback.
HistoryMessages(sessionId, payload) ==
  IF HasRecords(payload)
  THEN ExpandItems(SortItems(FilterItems(sessionId, payload.items)))
  ELSE <<>>

\* messages.find(m => m.sender === 'user'): its index, 0 when there is none.
FirstUserIndex(messages) ==
  IF \E i \in 1..Len(messages) : messages[i].sender = "user"
  THEN SetMin({ i \in 1..Len(messages) : messages[i].sender = "user" })
  ELSE 0

\* The chat title after the next callback, given the title before it.
HistoryTitle(sessionId, payload, oldTitle) ==
  LET messages == HistoryMessages(sessionId, payload)
      first    == FirstUserIndex(messages)
  IN  IF HasRecords(payload) /\ first # 0
      THEN TitleOf(messages[first].content)
      ELSE oldTitle

\* ------------------------------------------------------------------------
\* Sidemenu.loadChatSessions, next callback: the session catalog
\* ------------------------------------------------------------------------
\* sessionsMap.get(sessionId): the index of the entry, 0 when there is none.
\* The map is kept as the sequence of its entries in insertion order.
MapIndex(map, sessionId) ==
  IF \E i \in 1..Len(map) : map[i].session_id = sessionId
  THEN CHOOSE i \in 1..Len(map) : map[i].session_id = sessionId
  ELSE 0

\* A test with <= for <: a later record of the same instant takes the title.
IsOlder_OrEqual(createdAt, existing) ==
  Truthy(existing.created_at) /\ GetTime(createdAt) <= GetTime(existing.created_at)

\* existing.created_at && createdDate < new Date(existing.created_at)
IsOlder(createdAt, existing) ==
  Truthy(existing.created_at) /\ GetTime(createdAt) < GetTime(existing.created_at)

\* !existing.updated_at || createdDate > new Date(existing.updated_at)
IsNewer(createdAt, existing) ==
  ~Truthy(existing.updated_at) \/ GetTime(createdAt) > GetTime(existing.updated_at)

\* if (!sessionId) return;
SkipsItem(item) == ~Truthy(item.session_id)

\* The body of response.forEach for one item.
AddToMap(map, item) ==
  IF SkipsItem(item) THEN map
  ELSE LET i == MapIndex(map, item.session_id) IN
       IF i = 0
       THEN Append(map, [ session_id |-> item.session_id,
                          title      |-> item.user_query,
                          created_at |-> item.created_at,
                          updated_at |-> item.created_at ])
       ELSE LET e1 == IF IsOlder(item.created_at, map[i])
                      THEN [map[i] EXCEPT !.created_at = item.created_at,
                                          !.title = item.user_query]
                      ELSE map[i]
                e2 == IF IsNewer(item.created_at, e1)
                      THEN [e1 EXCEPT !.updated_at = item.created_at]
                      ELSE e1
            IN  [map EXCEPT ![i] = e2]

RECURSIVE FoldItems(_, _)
FoldItems(map, items) ==
  IF items = <<>> THEN map
  ELSE FoldItems(AddToMap(map, Head(items)), Tail(items))

\* new Date(a.updated_at || a.created_at || '').getTime(); every entry of the
\* map carries the created_at of a record, so the '' fallback is never taken.
SessionTime(s) ==
  GetTime(IF Truthy(s.updated_at) THEN s.updated_at ELSE s.created_at)

\* A comparator with the operands exchanged: oldest first.
CompareSessions_Ascending(a, b) == SessionTime(a) - SessionTime(b)

\* (a, b) => bTime - aTime
CompareSessions(a, b) == SessionTime(b) - SessionTime(a)

\* The value given to this.chatList.set(...) by the next callback.
ChatSessions(payload) ==
  IF HasRecords(payload)
  THEN LET sessions == FoldItems(<<>>, payload.items) IN
       ArraySort(sessions,
                 [i, j \in 1..Len(sessions) |-> CompareSessions(sessions[i], sessions[j])])
  ELSE <<>>

\* ------------------------------------------------------------------------
\* State
\* ------------------------------------------------------------------------
VARIABLES
  storage,          \* localStorage item 'chat_session_id' ('' when absent)
  sessionId,        \* Chat.sessionId
  messages,         \* Chat.messages
  messageInput,     \* Chat.messageInput
  isLoading,        \* Chat.isLoading
  error,            \* Chat.error
  chatTitle,        \* Chat.chatTitle
  activeSessionId,  \* App.activeSessionId (the input of Sidemenu)
  chatList,         \* Sidemenu.chatList
  menuLoading,      \* Sidemenu.isLoading
  menuError,        \* Sidemenu.error
  posts,            \* POST /chat/university/ requests in flight (a bag)
  historyGets,      \* GET history?session_id=... requests of Chat in flight (a bag)
  catalogGets,      \* GET history requests of Sidemenu in flight (their number)
  deletes,          \* DELETE history?session_id=... requests in flight (a bag)
  served,           \* the session ids the backend has answered a POST for
  chatInit,         \* Chat.ngOnInit has run
  menuInit,         \* Sidemenu.ngOnInit has run
  uuidCount,        \* the number of session identifiers drawn so far
  opCount,          \* the number of user operations counted against MaxOps
  lastWasSend,      \* the handler that ran last was onSendMessage
  records,          \* builders on their own: the record list given
  arg,              \* builders on their own: the session id and title given
  result,           \* builders on their own: what was built
  pcB               \* builders on their own: "input" or "built"

chatVars == <<storage, sessionId, messages, messageInput, isLoading, error, chatTitle>>
appVars == <<activeSessionId>>
menuVars == <<chatList, menuLoading, menuError>>
netVars == <<posts, historyGets, catalogGets, deletes, served>>
lifeVars == <<chatInit, menuInit, uuidCount, opCount>>
programVars == <<chatVars, appVars, menuVars, netVars, lifeVars, lastWasSend>>
builderVars == <<records, arg, result, pcB>>
vars == <<programVars, builderVars>>

\* ------------------------------------------------------------------------
\* The environment: what the user types and what the backend answers
\* ------------------------------------------------------------------------
NoError == "null"
SendFailed == "Failed to send message. Please try again."
HistoryFailed == "Failed to load chat history."
CatalogFailed == "Failed to load conversations"

Hi == <<"h", "i">>
BoldNote == <<"-", " ", "*", "*", "N", "*", "*", ":", " ", "*", "*", "b", "*", "*", "\n", "x">>
Ok == <<"o", "k">>

\* What the user may have typed into the input box.
InputTexts == { <<" ", "\n">>, <<" ", "h", "i", " ">> }

\* The records the backend holds, as the history endpoint lists them.
ServerRecords ==
  << HistoryItem(1, <<"q", "1">>, BoldNote, "s1", "T2Z"),
     HistoryItem(2, <<"q", "2">>, <<>>, "s2", "T1+00") >>

\* The payloads a history fetch for the session may deliver: a malformed one,
\* an empty list, every record, or the records of the session asked for.
HistoryPayloads(session) ==
  { NotArrayPayload,
    ArrayPayload(<<>>),
    ArrayPayload(ServerRecords),
    ArrayPayload(SelectSeq(ServerRecords, LAMBDA item : item.session_id = session)) }

\* generateUUID for a session: the n-th session identifier drawn.
Uuid(n) == "u" \o ToString(n)

\* The record the backend keeps of the exchange that opened the n-th drawn
\* session.
ServedRecord(n) == HistoryItem(10 + n, Hi, Ok, Uuid(n), "T2Z")

\* The records of the drawn sessions the backend has answered, oldest first.
ServedRecords(drawn, answered) ==
  SelectSeq([n \in 1..drawn |-> ServedRecord(n)],
            LAMBDA item : item.session_id \in answered)

\* The payloads a catalog fetch may deliver: a malformed one, an empty list,
\* or every record the backend holds.
CatalogPayloads(drawn, answered) ==
  { NotArrayPayload,
    ArrayPayload(<<>>),
    ArrayPayload(ServerRecords \o ServedRecords(drawn, answered)) }

ChatResponse(botResponse, response, message) ==
  [ bot_response     |-> botResponse,
    response         |-> response,
    message          |-> message,
    detected_intent  |-> "faq",
    confidence_score |-> 90 ]

\* The bodies a successful POST may deliver; an absent field is the empty text.
ChatResponses ==
  { ChatResponse(<<>>, <<>>, <<>>),
    ChatResponse(BoldNote, Ok, <<>>) }

\* What the item 'chat_session_id' may hold when the page loads.
StoredIds == {"", "s1"}

\* ------------------------------------------------------------------------
\* Chat
\* ------------------------------------------------------------------------
\* generateUUID for a message: the identifier is only a rendering key, no
\* handler reads it, so every drawn identifier is the one token.
MessageUuid == "uuid"

\* new Date() of a live message: the clock is past every stored timestamp.
Now == 1 + GetTime("T2Z")

\* Both components are initialised: the page takes user events.
Ready == chatInit /\ menuInit

\* Room for one more counted user operation.
CanAct == opCount < MaxOps

\* A guard that forgets the request in progress.
SendBlocked_IgnoresLoading(content, loading) == content = <<>>

\* if (!content || this.isLoading()) return;
SendBlocked(content, loading) == content = <<>> \/ loading

\* A resolution that prefers the least specific field.
ResponseText_MessageFirst(response) ==
  IF response.message # <<>> THEN response.message
  ELSE IF response.response # <<>> THEN response.response
  ELSE IF response.bot_response # <<>> THEN response.bot_response
  ELSE <<"No response received">>

\* response.bot_response || response.response || response.message || 'No response received'
ResponseText(response) ==
  IF response.bot_response # <<>> THEN response.bot_response
  ELSE IF response.response # <<>> THEN response.response
  ELSE IF response.message # <<>> THEN response.message
  ELSE <<"No response received">>

\* botMessage of the next callback of the POST.
LiveBotMessage(response) ==
  [ id         |-> MessageUuid,
    content    |-> formatBotResponse(ResponseText(response)),
    sender     |-> "bot",
    timestamp  |-> Now,
    intent     |-> response.detected_intent,
    confidence |-> response.confidence_score ]

\* if (this.messages().length === 1) this.chatTitle.set(...): the title after
\* the user message is appended, given the title before.
SendTitle(msgs, content, oldTitle) ==
  IF Len(msgs) = 1 THEN TitleOf(content) ELSE oldTitle

\* loadChatHistory, up to the request, for the session id now current.
LoadChatHistory(current) ==
  /\ isLoading' = TRUE
  /\ error' = NoError
  /\ historyGets' = historyGets (+) SetToBag({[session_id |-> current]})

\* ngOnInit: load the history of the stored session, if there is one.
ChatNgOnInit ==
  /\ ~chatInit
  /\ chatInit' = TRUE
  /\ lastWasSend' = FALSE
  /\ IF sessionId # ""
     THEN LoadChatHistory(sessionId)
     ELSE UNCHANGED <<isLoading, error, historyGets>>
  /\ UNCHANGED <<storage, sessionId, messages, messageInput, chatTitle>>
  /\ UNCHANGED <<appVars, menuVars, posts, catalogGets, menuInit, uuidCount, opCount, deletes, served, builderVars>>

\* The two-way binding of the input box writes messageInput.
TypeInput ==
  /\ Ready
  /\ \E text \in InputTexts : messageInput' = text
  /\ lastWasSend' = FALSE
  /\ UNCHANGED <<storage, sessionId, messages, isLoading, error, chatTitle>>
  /\ UNCHANGED <<appVars, menuVars, netVars, lifeVars, builderVars>>

\* onSendMessage; startNewChat runs inside it when there is no session id.
OnSendMessage ==
  /\ Ready
  /\ lastWasSend' = TRUE
  /\ LET content == Trim(messageInput) IN
     IF SendBlocked(content, isLoading)
     THEN UNCHANGED <<chatVars, posts, uuidCount, opCount>>
     ELSE LET fresh   == sessionId = ""
              session == IF fresh THEN Uuid(uuidCount + 1) ELSE sessionId
              base    == IF fresh THEN <<>> ELSE messages
              userMessage == [ id        |-> MessageUuid,
                               content   |-> content,
                               sender    |-> "user",
                               timestamp |-> Now ]
          IN  /\ CanAct
              /\ opCount' = opCount + 1
              /\ uuidCount' = IF fresh THEN uuidCount + 1 ELSE uuidCount
              /\ sessionId' = session
              /\ storage' = IF fresh THEN session ELSE storage
              /\ messages' = Append(base, userMessage)
              /\ messageInput' = <<>>
              /\ chatTitle' = SendTitle(Append(base, userMessage), content, chatTitle)
              /\ isLoading' = TRUE
              /\ error' = NoError
              /\ posts' = posts (+) SetToBag({[session_id |-> session, message |-> content]})
  /\ UNCHANGED <<appVars, menuVars, historyGets, catalogGets, chatInit, menuInit, deletes, served, builderVars>>

\* Sidemenu.loadChatSessions, up to the request.
LoadChatSessions ==
  /\ menuLoading' = TRUE
  /\ menuError' = NoError
  /\ catalogGets' = catalogGets + 1
  /\ UNCHANGED chatList

\* A parent that does not reload the catalog.
OnHistoryUpdated_NoReload == UNCHANGED <<chatList, menuLoading, menuError, catalogGets>>

\* App.onHistoryUpdated, run by historyUpdated.emit().
OnHistoryUpdated == LoadChatSessions

\* The next callback of the POST of req delivering response.
SendNextFor(req, response) ==
  /\ req \in BagToSet(posts)
  /\ posts' = posts (-) SetToBag({req})
  /\ messages' = Append(messages, LiveBotMessage(response))
  /\ isLoading' = FALSE
  /\ OnHistoryUpdated
  /\ served' = served \cup {req.session_id}
  /\ lastWasSend' = FALSE
  /\ UNCHANGED <<storage, sessionId, messageInput, error, chatTitle>>
  /\ UNCHANGED <<appVars, historyGets, deletes, lifeVars, builderVars>>

SendNext ==
  \E req \in BagToSet(posts), response \in ChatResponses : SendNextFor(req, response)

\* An error callback that takes the optimistic message back.
SendErrorFor_Rollback(req) ==
  /\ req \in BagToSet(posts)
  /\ posts' = posts (-) SetToBag({req})
  /\ error' = SendFailed
  /\ isLoading' = FALSE
  /\ lastWasSend' = FALSE
  /\ messages' = SubSeq(messages, 1, Len(messages) - 1)
  /\ UNCHANGED <<storage, sessionId, messageInput, chatTitle>>
  /\ UNCHANGED <<appVars, menuVars, historyGets, catalogGets, lifeVars, deletes, served, builderVars>>

\* An error callback that leaves the request marked as in progress.
SendErrorFor_StaysLoading(req) ==
  /\ req \in BagToSet(posts)
  /\ posts' = posts (-) SetToBag({req})
  /\ error' = SendFailed
  /\ lastWasSend' = FALSE
  /\ UNCHANGED <<storage, sessionId, messages, messageInput, isLoading, chatTitle>>
  /\ UNCHANGED <<appVars, menuVars, historyGets, catalogGets, lifeVars, deletes, served, builderVars>>

\* The error callback of the POST of req.
SendErrorFor(req) ==
  /\ req \in BagToSet(posts)
  /\ posts' = posts (-) SetToBag({req})
  /\ error' = SendFailed
  /\ isLoading' = FALSE
  /\ lastWasSend' = FALSE
  /\ UNCHANGED <<storage, sessionId, messages, messageInput, chatTitle>>
  /\ UNCHANGED <<appVars, menuVars, historyGets, catalogGets, lifeVars, deletes, served, builderVars>>

SendError == \E req \in BagToSet(posts) : SendErrorFor(req)

\* dismissError
DismissError ==
  /\ Ready
  /\ error # NoError
  /\ error' = NoError
  /\ lastWasSend' = FALSE
  /\ UNCHANGED <<storage, sessionId, messages, messageInput, isLoading, chatTitle>>
  /\ UNCHANGED <<appVars, menuVars, netVars, lifeVars, builderVars>>

\* Sidemenu.onSelectChat of a listed session, then App.onSessionSelected and
\* Chat.loadSession with loadChatHistory up to the request.
OnSessionSelected ==
  /\ Ready
  /\ CanAct
  /\ opCount' = opCount + 1
  /\ \E i \in 1..Len(chatList) :
       LET selected == chatList[i].session_id IN
       /\ activeSessionId' = selected
       /\ sessionId' = selected
       /\ storage' = selected
       /\ LoadChatHistory(selected)
  /\ lastWasSend' = FALSE
  /\ UNCHANGED <<messages, messageInput, chatTitle>>
  /\ UNCHANGED <<menuVars, posts, catalogGets, chatInit, menuInit, uuidCount, deletes, served, builderVars>>

\* Chat.startNewChat
StartNewChat ==
  /\ uuidCount' = uuidCount + 1
  /\ sessionId' = Uuid(uuidCount + 1)
  /\ storage' = Uuid(uuidCount + 1)
  /\ messages' = <<>>
  /\ chatTitle' = DefaultTitle
  /\ error' = NoError

\* Sidemenu.onNewChat, then App.onNewChatRequested and Chat.startNewChat.
OnNewChatRequested ==
  /\ Ready
  /\ CanAct
  /\ opCount' = opCount + 1
  /\ StartNewChat
  /\ activeSessionId' = storage'
  /\ lastWasSend' = FALSE
  /\ UNCHANGED <<messageInput, isLoading>>
  /\ UNCHANGED <<menuVars, netVars, chatInit, menuInit, builderVars>>

\* The next callback of the history fetch req of Chat delivering payload.
HistoryNextFor(req, payload) ==
  /\ req \in BagToSet(historyGets)
  /\ historyGets' = historyGets (-) SetToBag({req})
  /\ messages' = HistoryMessages(sessionId, payload)
  /\ chatTitle' = HistoryTitle(sessionId, payload, chatTitle)
  /\ isLoading' = FALSE
  /\ lastWasSend' = FALSE
  /\ UNCHANGED <<storage, sessionId, messageInput, error>>
  /\ UNCHANGED <<appVars, menuVars, posts, catalogGets, lifeVars, deletes, served, builderVars>>

HistoryNext ==
  \E req \in BagToSet(historyGets) :
    \E payload \in HistoryPayloads(req.session_id) : HistoryNextFor(req, payload)

\* The error callback of the history fetch req of Chat.
HistoryErrorFor(req) ==
  /\ req \in BagToSet(historyGets)
  /\ historyGets' = historyGets (-) SetToBag({req})
  /\ error' = HistoryFailed
  /\ isLoading' = FALSE
  /\ lastWasSend' = FALSE
  /\ UNCHANGED <<storage, sessionId, messages, messageInput, chatTitle>>
  /\ UNCHANGED <<appVars, menuVars, posts, catalogGets, lifeVars, deletes, served, builderVars>>

HistoryError == \E req \in BagToSet(historyGets) : HistoryErrorFor(req)

\* ------------------------------------------------------------------------
\* Sidemenu
\* ------------------------------------------------------------------------
\* ngOnInit
SidemenuNgOnInit ==
  /\ ~menuInit
  /\ menuInit' = TRUE
  /\ LoadChatSessions
  /\ lastWasSend' = FALSE
  /\ UNCHANGED <<chatVars, appVars, posts, historyGets, chatInit, uuidCount, opCount, deletes, served, builderVars>>

\* The next callback of loadChatSessions.
CatalogNext ==
  /\ catalogGets > 0
  /\ catalogGets' = catalogGets - 1
  /\ \E payload \in CatalogPayloads(uuidCount, served) : chatList' = ChatSessions(payload)
  /\ menuLoading' = FALSE
  /\ lastWasSend' = FALSE
  /\ UNCHANGED <<menuError, chatVars, appVars, posts, historyGets, lifeVars, deletes, served, builderVars>>

\* The error callback of loadChatSessions.
CatalogError ==
  /\ catalogGets > 0
  /\ catalogGets' = catalogGets - 1
  /\ menuError' = CatalogFailed
  /\ menuLoading' = FALSE
  /\ lastWasSend' = FALSE
  /\ UNCHANGED <<chatList, chatVars, appVars, posts, historyGets, lifeVars, deletes, served, builderVars>>

\* onDeleteChat of a listed session, confirmed by the user, up to the request.
OnDeleteChat ==
  /\ Ready
  /\ CanAct
  /\ opCount' = opCount + 1
  /\ \E i \in 1..Len(chatList) :
       deletes' = deletes (+) SetToBag({chatList[i].session_id})
  /\ lastWasSend' = FALSE
  /\ UNCHANGED <<chatVars, appVars, menuVars, posts, historyGets, catalogGets, served>>
  /\ UNCHANGED <<chatInit, menuInit, uuidCount, builderVars>>

\* sessions.filter(s => s.session_id !== sessionId)
RemoveSession(sessions, deleted) ==
  SelectSeq(sessions, LAMBDA s : s.session_id # deleted)

\* if (this.activeSessionId() === sessionId)
DeletedIsActive(deleted) == activeSessionId = deleted

\* The next callback of the DELETE of the session; newChatRequested.emit()
\* runs App.onNewChatRequested.
DeleteNextFor(deleted) ==
  /\ deleted \in BagToSet(deletes)
  /\ deletes' = deletes (-) SetToBag({deleted})
  /\ chatList' = RemoveSession(chatList, deleted)
  /\ IF DeletedIsActive(deleted)
     THEN /\ StartNewChat
          /\ activeSessionId' = storage'
     ELSE UNCHANGED <<uuidCount, sessionId, storage, messages, chatTitle, error,
                      activeSessionId>>
  /\ lastWasSend' = FALSE
  /\ UNCHANGED <<messageInput, isLoading, menuLoading, menuError>>
  /\ UNCHANGED <<posts, historyGets, catalogGets, served>>
  /\ UNCHANGED <<chatInit, menuInit, opCount, builderVars>>

DeleteNext == \E deleted \in BagToSet(deletes) : DeleteNextFor(deleted)

\* The error callback of the DELETE of the session: console.error only.
DeleteErrorFor(deleted) ==
  /\ deleted \in BagToSet(deletes)
  /\ deletes' = deletes (-) SetToBag({deleted})
  /\ lastWasSend' = FALSE
  /\ UNCHANGED <<chatVars, appVars, menuVars, posts, historyGets, catalogGets, served>>
  /\ UNCHANGED <<lifeVars, builderVars>>

DeleteError == \E deleted \in BagToSet(deletes) : DeleteErrorFor(deleted)

\* ------------------------------------------------------------------------
\* The program
\* ------------------------------------------------------------------------
\* The state after the components are constructed, the item holding stored.
ProgramInit(stored) ==
  /\ storage = stored
  /\ sessionId = stored
  /\ messages = <<>>
  /\ messageInput = <<>>
  /\ isLoading = FALSE
  /\ error = NoError
  /\ chatTitle = DefaultTitle
  /\ activeSessionId = stored
  /\ chatList = <<>>
  /\ menuLoading = FALSE
  /\ menuError = NoError
  /\ posts = EmptyBag
  /\ historyGets = EmptyBag
  /\ catalogGets = 0
  /\ deletes = EmptyBag
  /\ served = {}
  /\ chatInit = FALSE
  /\ menuInit = FALSE
  /\ uuidCount = 0
  /\ opCount = 0
  /\ lastWasSend = FALSE

BuilderIdle ==
  /\ records = <<>>
  /\ arg = [session_id |-> "", title |-> DefaultTitle]
  /\ result = <<>>
  /\ pcB = "input"

Init ==
  /\ \E stored \in StoredIds : ProgramInit(stored)
  /\ BuilderIdle

Next ==
  \/ ChatNgOnInit
  \/ SidemenuNgOnInit
  \/ TypeInput
  \/ OnSendMessage
  \/ SendNext
  \/ SendError
  \/ DismissError
  \/ OnSessionSelected
  \/ OnNewChatRequested
  \/ HistoryNext
  \/ HistoryError
  \/ CatalogNext
  \/ CatalogError
  \/ OnDeleteChat
  \/ DeleteNext
  \/ DeleteError

Spec == Init /\ [][Next]_vars

\* A POST in flight completes: its error or its next callback runs.  The
\* completion of the other requests is not needed for the send to return.
PostCompletes == SendError \/ SendNext

SpecLive == Init /\ [][Next]_vars /\ WF_vars(PostCompletes)

\* ------------------------------------------------------------------------
\* Session switches alone: no message is sent, the history of the backend
\* does not change and every fetch succeeds
\* ------------------------------------------------------------------------
\* The answer of the backend to a history fetch for the session: its records
\* of the session.
ServerHistory(session) ==
  ArrayPayload(SelectSeq(ServerRecords, LAMBDA item : item.session_id = session))

\* What a successful history fetch for the session delivers: the records of
\* the session, or every record when the backend does not scope the answer.
LoadPayloads(session) == { ServerHistory(session), ArrayPayload(ServerRecords) }

LoadHistoryNext ==
  \E req \in BagToSet(historyGets) :
    \E payload \in LoadPayloads(req.session_id) : HistoryNextFor(req, payload)

\* The catalog fetch delivers the records of the backend.
LoadCatalogNext ==
  /\ CatalogNext
  /\ chatList' = ChatSessions(ArrayPayload(ServerRecords))

LoadNext ==
  \/ ChatNgOnInit
  \/ SidemenuNgOnInit
  \/ LoadCatalogNext
  \/ OnSessionSelected
  \/ LoadHistoryNext

SpecLoad == Init /\ [][LoadNext]_vars

\* ------------------------------------------------------------------------
\* The builders on their own: the next callbacks applied to any record list
\* ------------------------------------------------------------------------
\* The id of the record at a position of the list: distinct, not ascending.
RecordId(pos) == 10 - pos

QueryOf(pos) == <<"q", ToString(pos)>>

SessionIds == {"s1", "s2"}

\* response after the transcript is built: items.sort sorts response itself
\* when there is no session id to filter by (items is then response).
ResponseAfter(session, payload) ==
  IF HasRecords(payload) /\ session = ""
  THEN SortItems(payload.items)
  ELSE payload.items

TranscriptAddRecord ==
  /\ pcB = "input"
  /\ Len(records) < MaxRecords
  /\ \E s \in SessionIds, c \in DateStrings, b \in {<<>>, BoldNote} :
       records' = Append(records,
                    HistoryItem(RecordId(Len(records) + 1), QueryOf(Len(records) + 1), b, s, c))
  /\ UNCHANGED <<arg, result, pcB, programVars>>

TranscriptBuild ==
  /\ pcB = "input"
  /\ \E s \in SessionIds \cup {""}, t \in {DefaultTitle, Hi} :
       /\ arg' = [session_id |-> s, title |-> t]
       /\ result' = [ messages |-> HistoryMessages(s, ArrayPayload(records)),
                      title    |-> HistoryTitle(s, ArrayPayload(records), t),
                      response |-> ResponseAfter(s, ArrayPayload(records)),
                      again    |-> HistoryMessages(s,
                                     ArrayPayload(ResponseAfter(s, ArrayPayload(records)))) ]
  /\ pcB' = "built"
  /\ UNCHANGED <<records, programVars>>

TranscriptNext == TranscriptAddRecord \/ TranscriptBuild

\* The builders are given their input with the program left as constructed.
BuilderInit == ProgramInit("") /\ BuilderIdle

SpecTranscript == BuilderInit /\ [][TranscriptNext]_vars

CatalogAddRecord ==
  /\ pcB = "input"
  /\ Len(records) < MaxRecords
  /\ \E s \in SessionIds \cup {"", Undefined}, c \in DateStrings :
       records' = Append(records,
                    HistoryItem(RecordId(Len(records) + 1), QueryOf(Len(records) + 1), Ok, s, c))
  /\ UNCHANGED <<arg, result, pcB, programVars>>

CatalogBuild ==
  /\ pcB = "input"
  /\ result' = [ sessions |-> ChatSessions(ArrayPayload(records)),
                 response |-> records ]
  /\ pcB' = "built"
  /\ UNCHANGED <<records, arg, programVars>>

CatalogSpecNext == CatalogAddRecord \/ CatalogBuild

SpecCatalog == BuilderInit /\ [][CatalogSpecNext]_vars

\* ------------------------------------------------------------------------
\* The title derivation on its own: the two places that set chatTitle,
\* given any text up to MaxTitleInput characters
\* ------------------------------------------------------------------------
\* The character typed at a position: the last digit of the position.
CharAt(pos) == ToString(pos % 10)

\* The text grows by one character; it may begin with one blank.
TitleAddChar ==
  /\ pcB = "input"
  /\ Len(messageInput) < MaxTitleInput
  /\ \/ messageInput' = Append(messageInput, CharAt(Len(Trim(messageInput)) + 1))
     \/ messageInput = <<>> /\ messageInput' = <<" ">>
  /\ UNCHANGED <<storage, sessionId, messages, isLoading, error, chatTitle>>
  /\ UNCHANGED <<appVars, menuVars, netVars, lifeVars, lastWasSend, builderVars>>

\* onSendMessage up to the title, the text being the first message of the
\* transcript.
TitleFromSend ==
  /\ pcB = "input"
  /\ LET content == Trim(messageInput)
         userMessage == [ id        |-> MessageUuid,
                          content   |-> content,
                          sender    |-> "user",
                          timestamp |-> Now ]
     IN  /\ ~SendBlocked(content, isLoading)
         /\ \E t \in {DefaultTitle, Hi} :
              /\ arg' = [session_id |-> "", title |-> t]
              /\ result' = [ site    |-> "send",
                             content |-> content,
                             title   |-> SendTitle(<<userMessage>>, content, t) ]
  /\ pcB' = "built"
  /\ UNCHANGED <<records, programVars>>

\* loadChatHistory's next callback given one record whose user_query is the
\* text.
TitleFromHistory ==
  /\ pcB = "input"
  /\ \E t \in {DefaultTitle, Hi} :
       LET payload == ArrayPayload(<<HistoryItem(RecordId(1), messageInput, Ok, "s1", "T1Z")>>)
           built   == HistoryMessages("s1", payload)
       IN  /\ arg' = [session_id |-> "s1", title |-> t]
           /\ result' = [ site    |-> "history",
                          content |-> built[FirstUserIndex(built)].content,
                          title   |-> HistoryTitle("s1", payload, t) ]
  /\ pcB' = "built"
  /\ UNCHANGED <<records, programVars>>

TitleNext == TitleAddChar \/ TitleFromSend \/ TitleFromHistory

SpecTitle == BuilderInit /\ [][TitleNext]_vars

\* ------------------------------------------------------------------------
\* The bot message of a reply on its own, given any response body
\* ------------------------------------------------------------------------
\* The texts a field of the response body may hold; the empty text stands
\* for an absent field as well.
ReplyTexts == { <<>>, Ok, Hi, BoldNote }

ReplyDraw ==
  /\ pcB = "input"
  /\ \E b \in ReplyTexts, r \in ReplyTexts, m \in ReplyTexts :
       result' = [ response |-> ChatResponse(b, r, m) ]
  /\ pcB' = "drawn"
  /\ UNCHANGED <<records, arg, programVars>>

ReplyBuild ==
  /\ pcB = "drawn"
  /\ result' = [ response |-> result.response,
                 message  |-> LiveBotMessage(result.response) ]
  /\ pcB' = "replied"
  /\ UNCHANGED <<records, arg, programVars>>

ReplyNext == ReplyDraw \/ ReplyBuild

SpecReply == BuilderInit /\ [][ReplyNext]_vars

\* ------------------------------------------------------------------------
\* Properties of the send/receive state machine (specification Spec)
\* ------------------------------------------------------------------------
\* The number of POST requests in flight that carry the session id.
PostsInFlightOf(session) ==
  BagCardinality([ req \in { r \in BagToSet(posts) : r.session_id = session }
                     |-> posts[req] ])

\* C1: at most one send (POST) request is in flight for a transcript at any
\* time, whatever the interleaving of sends, session switches and request
\* completions.  Stated for the transcript of each session: two sends in
\* flight for one session are two sends in flight for the chat as well.
C1_AtMostOneSendInFlight ==
  \A req \in BagToSet(posts) : PostsInFlightOf(req.session_id) <= 1

\* C2: a history response whose request was issued for a session id other
\* than the one current when it arrives is discarded: it leaves the
\* transcript and the title unchanged.
C2_StaleHistoryDiscarded ==
  [][ \A req \in BagToSet(historyGets) :
        \A payload \in HistoryPayloads(req.session_id) :
          (HistoryNextFor(req, payload) /\ req.session_id # sessionId)
            => UNCHANGED <<messages, chatTitle>> ]_vars

C4_SendFailureKeepsTranscript ==
  [][ SendError => /\ error' = SendFailed
                   /\ isLoading' = FALSE
                   /\ messages' = messages ]_vars

\* A send has failed and its optimistic user message closes the transcript.
C4_Witness ==
  /\ error = SendFailed
  /\ ~isLoading
  /\ posts = EmptyBag
  /\ messages # <<>>
  /\ messages[Len(messages)].sender = "user"
  /\ messages[Len(messages)].content = Hi

\* C5: a successful send response appends exactly one bot message to the
\* end of the transcript, resets the in-flight flag, and has the session
\* catalog reloaded (one more catalog request, the sidemenu loading).
C5_SendSuccessAppendsAndReloads ==
  [][ SendNext => /\ Len(messages') = Len(messages) + 1
                  /\ SubSeq(messages', 1, Len(messages)) = messages
                  /\ messages'[Len(messages')].sender = "bot"
                  /\ isLoading' = FALSE
                  /\ catalogGets' = catalogGets + 1
                  /\ menuLoading' ]_vars

\* A reply has been appended after the user message and the reload is awaited.
C5_Witness ==
  /\ Len(messages) >= 2
  /\ messages[Len(messages)].sender = "bot"
  /\ messages[Len(messages) - 1].sender = "user"
  /\ messages[Len(messages) - 1].id = MessageUuid
  /\ ~isLoading
  /\ catalogGets >= 1
  /\ menuLoading

\* The payload holds no record of the session.
NoRecordOf(session, payload) ==
  \/ ~HasRecords(payload)
  \/ \A i \in 1..Len(payload.items) : payload.items[i].session_id # session

\* C10: a history fetch for the selected session that returns an empty or
\* non-array payload, or no record of the session, leaves an empty
\* transcript and the default title, whatever the title was, and flags no
\* error.
C10_EmptyHistoryResetsTitle ==
  [][ \A req \in BagToSet(historyGets) :
        \A payload \in HistoryPayloads(req.session_id) :
          (/\ HistoryNextFor(req, payload)
           /\ req.session_id = sessionId
           /\ NoRecordOf(sessionId, payload))
            => /\ messages' = <<>>
               /\ chatTitle' = DefaultTitle
               /\ error' = error ]_vars

\* C12: when the delete request for a session succeeds, the summary of the
\* session is removed from the catalog, the other summaries keep their
\* order, and if the session is the one the chat is using, a new session is
\* created: the chat has a fresh session id, an empty transcript and the
\* default title.
C12_DeleteRemovesAndRestarts ==
  [][ \A deleted \in BagToSet(deletes) :
        DeleteNextFor(deleted)
          => /\ chatList' = SelectSeq(chatList, LAMBDA s : s.session_id # deleted)
             /\ deleted = sessionId
                  => /\ sessionId' \notin {deleted, ""}
                     /\ sessionId' \notin { chatList[i].session_id : i \in 1..Len(chatList) }
                     /\ messages' = <<>>
                     /\ chatTitle' = DefaultTitle ]_vars

\* C13: every transport failure of a request (send, transcript history
\* fetch, catalog fetch, delete) sets the error flag of the component that
\* issued it and leaves the in-flight flag of that component false.
C13_FailureSetsErrorFlag ==
  [][ /\ SendError => (error' # NoError /\ ~isLoading')
      /\ HistoryError => (error' # NoError /\ ~isLoading')
      /\ CatalogError => (menuError' # NoError /\ ~menuLoading')
      /\ DeleteError => (menuError' # NoError /\ ~menuLoading') ]_vars

\* C19: the reply to a send is appended to the transcript only if the
\* session the send was issued for is still the current one when the reply
\* arrives; after a loadSession of another session or a startNewChat the
\* reply leaves the transcript as it is.
C19_ReplyOnlyToItsSession ==
  [][ \A req \in BagToSet(posts) :
        \A response \in ChatResponses :
          (SendNextFor(req, response) /\ req.session_id # sessionId)
            => messages' = messages ]_vars

\* C20: the live transcript never begins with a bot message, and every bot
\* message of it comes right after a user message.
C20_BotFollowsUser ==
  \A i \in 1..Len(messages) :
    messages[i].sender = "bot" => (i > 1 /\ messages[i - 1].sender = "user")

\* C21: after every completed operation (a session selected, a new chat
\* requested, a message sent, a delete completed) App.activeSessionId, which
\* the sidemenu uses for the highlight and for the delete of the active
\* session, is the session id the chat is using.
C21_ActiveSessionIsChatSession ==
  [][ (OnSessionSelected \/ OnNewChatRequested \/ OnSendMessage \/ DeleteNext)
        => activeSessionId' = sessionId' ]_vars

\* ------------------------------------------------------------------------
\* Properties of session switches alone (specification SpecLoad)
\* ------------------------------------------------------------------------
\* C22: after loadSession calls the last of which is for session S, no
\* message sent and every history fetch answered, the transcript is the one
\* built for S from the records the backend holds of S, in whatever order
\* the answers arrived.
C22_TranscriptOfLastSession ==
  (opCount > 0 /\ historyGets = EmptyBag)
    => messages = HistoryMessages(sessionId, ServerHistory(sessionId))

\* ------------------------------------------------------------------------
\* Progress of the send/receive state machine (specification SpecLive)
\* ------------------------------------------------------------------------
\* The chat is idle after a send: not loading, and the transcript ends with
\* a bot message or the send error is flagged.
IdleAfterSend ==
  /\ ~isLoading
  /\ \/ messages # <<>> /\ messages[Len(messages)].sender = "bot"
     \/ error = SendFailed

\* C14: every POST completing, a send in progress leads to the idle
\* state: the in-flight flag is false, with a bot message appended or the
\* error flag set, whatever loadSession and startNewChat do in between.
C14_SendReturnsToIdle == (posts # EmptyBag) ~> IdleAfterSend

\* The reply to a send arrived after a new chat was started in between:
\* the chat is idle and the reply is the only message of the transcript.
C14_Witness ==
  /\ IdleAfterSend
  /\ posts = EmptyBag
  /\ historyGets = EmptyBag
  /\ error = NoError
  /\ Len(messages) = 1
  /\ messages[1].sender = "bot"
  /\ chatTitle = DefaultTitle

\* ------------------------------------------------------------------------
\* Properties of the transcript built from history (specification
\* SpecTranscript)
\* ------------------------------------------------------------------------
Built == pcB = "built"

\* The positions of the records with and without a bot response.
WithReply == { i \in 1..Len(records) : records[i].bot_response # <<>> }
WithoutReply == { i \in 1..Len(records) : records[i].bot_response = <<>> }

\* The records are some, and all of the session the transcript is built for.
SharesSession ==
  /\ records # <<>>
  /\ \A i \in 1..Len(records) : records[i].session_id = arg.session_id

\* C6: for a non-empty record list of one session S, the transcript built
\* for S has two messages for every record with a bot response and one for
\* every record without.
C6_TranscriptLength ==
  (Built /\ SharesSession)
    => Len(result.messages) = 2 * Cardinality(WithReply) + Cardinality(WithoutReply)

\* Three records of the session, two of them answered.
C6_Witness ==
  /\ Built /\ SharesSession
  /\ Cardinality(WithReply) = 2
  /\ Cardinality(WithoutReply) = 1
  /\ Len(result.messages) = 5

\* The position in the input of the record a history message comes from.
RecordPos(message) ==
  CHOOSE k \in 1..Len(records) : records[k].id = message.id[2]

\* C7: the transcript built from history is in non-decreasing order of
\* timestamp, records of the same instant keep their input order, and every
\* bot message comes right after the user message of the same record.
C7_TranscriptOrdered ==
  Built =>
    LET m == result.messages IN
    /\ \A i, j \in 1..Len(m) : i < j => m[i].timestamp <= m[j].timestamp
    /\ \A i, j \in 1..Len(m) :
         (i < j /\ m[i].timestamp = m[j].timestamp
            /\ m[i].sender = "user" /\ m[j].sender = "user")
           => RecordPos(m[i]) < RecordPos(m[j])
    /\ \A i \in 1..Len(m) :
         m[i].sender = "bot"
           => /\ i > 1
              /\ m[i - 1].sender = "user"
              /\ m[i - 1].id[2] = m[i].id[2]

\* The newest record came first in the input and the two others are of one
\* instant spelled differently; the build moved the newest to the end.
C7_Witness ==
  /\ Built
  /\ Len(records) = 3
  /\ SharesSession
  /\ records[1].created_at = "T2Z"
  /\ records[2].created_at = "T1+00"
  /\ records[3].created_at = "T1Z"
  /\ WithReply = {1, 3}
  /\ Len(result.messages) = 5
  /\ result.messages[1].id = <<"hist", RecordId(2), "user">>
  /\ result.messages[3].id = <<"hist", RecordId(3), "bot">>
  /\ result.messages[5].id = <<"hist", RecordId(1), "bot">>

C17_TranscriptOfSessionRecords ==
  Built =>
    { result.messages[i].id[2] : i \in 1..Len(result.messages) }
      = { records[k].id : k \in { k \in 1..Len(records) :
                                    arg.session_id = "" \/ records[k].session_id = arg.session_id } }

\* Built for s1 from a record of s2 between two records of s1: the messages
\* are of the first and the third record.
C17_Witness ==
  /\ Built
  /\ arg.session_id = "s1"
  /\ Len(records) = 3
  /\ records[1].session_id = "s1"
  /\ records[2].session_id = "s2"
  /\ records[3].session_id = "s1"
  /\ { result.messages[i].id[2] : i \in 1..Len(result.messages) } = {RecordId(1), RecordId(3)}

\* ------------------------------------------------------------------------
\* Properties of the session catalog (specification SpecCatalog)
\* ------------------------------------------------------------------------
\* The session ids of the records that have one.
RecordSessions ==
  { records[i].session_id : i \in 1..Len(records) } \ {"", Undefined}

\* The positions of the records of a session.
RecordsOf(session) == { i \in 1..Len(records) : records[i].session_id = session }

\* C8: the catalog has exactly one entry for every distinct non-empty
\* session id of the input, none for records without a session id, and is
\* in non-increasing order of updated_at.
C8_CatalogEntries ==
  Built =>
    LET c == result.sessions IN
    /\ { c[i].session_id : i \in 1..Len(c) } = RecordSessions
    /\ Len(c) = Cardinality(RecordSessions)
    /\ \A i, j \in 1..Len(c) :
         i < j => GetTime(c[i].updated_at) >= GetTime(c[j].updated_at)

\* A record without session id, then an older and a newer session: the
\* catalog lists the newer session first.
C8_Witness ==
  /\ Built
  /\ Len(records) = 3
  /\ records[1].session_id = Undefined
  /\ records[2].session_id = "s1" /\ records[2].created_at = "T1Z"
  /\ records[3].session_id = "s2" /\ records[3].created_at = "T2Z"
  /\ Len(result.sessions) = 2
  /\ result.sessions[1].session_id = "s2"

MinTime(S) == SetMin({ GetTime(records[i].created_at) : i \in S })
MaxTime(S) == -SetMin({ -GetTime(records[i].created_at) : i \in S })

\* The first record, in input order, of the earliest instant of the session.
EarliestOf(session) ==
  SetMin({ i \in RecordsOf(session) :
             GetTime(records[i].created_at) = MinTime(RecordsOf(session)) })

\* C9: every catalog entry has the earliest created_at of the records of
\* its session as created_at, the latest as updated_at, and as title the
\* user_query of the earliest record, the first in input order among the
\* records of the earliest instant; for every order of the input.
C9_CatalogEntryFields ==
  Built =>
    \A i \in 1..Len(result.sessions) :
      LET e == result.sessions[i]
          S == RecordsOf(e.session_id)
      IN  /\ GetTime(e.created_at) = MinTime(S)
          /\ GetTime(e.updated_at) = MaxTime(S)
          /\ e.title = records[EarliestOf(e.session_id)].user_query
          /\ e.created_at = records[EarliestOf(e.session_id)].created_at

\* One session whose newest record came first and whose two oldest records
\* are of one instant: the second record gives the title.
C9_Witness ==
  /\ Built
  /\ Len(records) = 3
  /\ \A i \in 1..3 : records[i].session_id = "s1"
  /\ records[1].created_at = "T2Z"
  /\ records[2].created_at = "T1Z"
  /\ records[3].created_at = "T1+00"
  /\ Len(result.sessions) = 1
  /\ result.sessions[1].title = QueryOf(2)
  /\ result.sessions[1].updated_at = "T2Z"

\* The first record, in input order, of the session.
FirstOf(session) == SetMin(RecordsOf(session))

\* The record that supplies the updated_at of the session: the first record,
\* in input order, of the latest instant of the session.
WinningOf(session) ==
  SetMin({ i \in RecordsOf(session) :
             GetTime(records[i].created_at) = MaxTime(RecordsOf(session)) })

\* Two entries of the catalog with the same updated_at, the first before the
\* second.
TiedEntries ==
  { p \in (1..Len(result.sessions)) \X (1..Len(result.sessions)) :
      /\ p[1] < p[2]
      /\ GetTime(result.sessions[p[1]].updated_at)
           = GetTime(result.sessions[p[2]].updated_at) }

\* C16 as claimed: two sessions of the catalog with equal updated_at are in
\* the order of the input positions of their winning records, the records
\* that supply their updated_at.
C16_TiesByWinningRecord ==
  Built =>
    \A p \in TiedEntries :
      WinningOf(result.sessions[p[1]].session_id)
        < WinningOf(result.sessions[p[2]].session_id)

\* C16 as amended: two sessions of the catalog with equal updated_at are in
\* the order of the input positions of their first records, the order in
\* which the sessions are first met in the input.
C16_TiesByFirstRecord ==
  Built =>
    \A p \in TiedEntries :
      FirstOf(result.sessions[p[1]].session_id)
        < FirstOf(result.sessions[p[2]].session_id)

\* Session s1 is met first but its winning record comes after the one of
\* s2, of the same instant: the catalog lists s1 first.
C16_Witness ==
  /\ Built
  /\ Len(records) = 3
  /\ records[1].session_id = "s1" /\ records[1].created_at = "T1Z"
  /\ records[2].session_id = "s2" /\ records[2].created_at = "T2Z"
  /\ records[3].session_id = "s1" /\ records[3].created_at = "T2Z"
  /\ TiedEntries = {<<1, 2>>}
  /\ result.sessions[1].session_id = "s1"
  /\ WinningOf("s1") = 3

\* ------------------------------------------------------------------------
\* Properties of the bot message of a reply (specification SpecReply)
\* ------------------------------------------------------------------------
Replied == pcB = "replied"

\* C18: the text of the bot message of a successful send is bot_response
\* when it is not empty, else response when it is not empty, else message
\* when it is not empty, else the placeholder 'No response received'; the
\* message content is that text as formatBotResponse renders it.
C18_ResponseTextPreference ==
  Replied =>
    LET r    == result.response
        text == result.message.content
    IN  /\ r.bot_response # <<>> => text = formatBotResponse(r.bot_response)
        /\ (r.bot_response = <<>> /\ r.response # <<>>)
             => text = formatBotResponse(r.response)
        /\ (r.bot_response = <<>> /\ r.response = <<>> /\ r.message # <<>>)
             => text = formatBotResponse(r.message)
        /\ (r.bot_response = <<>> /\ r.response = <<>> /\ r.message = <<>>)
             => text = <<"No response received">>

\* bot_response is absent and the two other fields differ: the content is
\* the rendering of response.
C18_Witness ==
  /\ Replied
  /\ result.response.bot_response = <<>>
  /\ result.response.response = BoldNote
  /\ result.response.message = Ok
  /\ result.message.content = formatBotResponse(BoldNote)
  /\ result.message.content # BoldNote

\* ------------------------------------------------------------------------
\* Properties of the title derivation (specification SpecTitle)
\* ------------------------------------------------------------------------
\* The title has been derived, by onSendMessage or from loaded history.
TitleBuilt == pcB = "built" /\ result.site \in {"send", "history"}

\* C11: the title derived from the first user message, by onSendMessage and
\* from loaded history alike, is the content unchanged when the content has
\* at most 30 characters, and its first 30 characters followed by the
\* ellipsis when it has more: 30 characters give no ellipsis, 31 give 30
\* characters and the ellipsis.
C11_TitleTruncation ==
  TitleBuilt =>
    LET c == result.content IN
    /\ Len(c) <= 30 => result.title = c
    /\ Len(c) > 30 => result.title = SubSeq(c, 1, 30) \o <<".", ".", ".">>

\* A first message of 31 characters typed after a blank has been sent: the
\* title is 30 characters and the ellipsis.
C11_Witness ==
  /\ TitleBuilt
  /\ result.site = "send"
  /\ Len(messageInput) = 32
  /\ Len(result.content) = 31
  /\ Len(result.title) = 33
  /\ result.title[30] = CharAt(30)
  /\ result.title[31] = "."

====
